---- MODULE Spec2Model ----
(***************************************************************************)
(* State-vector core of the MBQC simulator (src/src/state_vec.py).         *)
(*                                                                         *)
(* Representation of the tensor.  psi is kept as the flattened amplitude   *)
(* sequence (row major, axis 0 most significant, as numpy's flatten()).    *)
(* Every tensor the program holds between two calls has norm 1 (or is the  *)
(* zero tensor a projection can produce, or NaN), so a real                *)
(* tensor is represented by the integer vector on the same ray with the    *)
(* gcd of its entries equal to 1: two tensors of the program are equal     *)
(* exactly when their representatives are.  Division by the norm is the    *)
(* division by that gcd.  Floating point rounding is abstracted to exact   *)
(* arithmetic; the measurement angles are the integer multiples of pi the  *)
(* signature of measure declares (angle: int), for which every projector   *)
(* is real.                                                                *)
(***************************************************************************)
EXTENDS Integers, Sequences, FiniteSets, TLC

VARIABLES
    made,          \* the StateVec instances constructed so far
    psi,           \* psi[i]: the tensor of instance i, [nan, amp]
    node_index,    \* node_index[i]: the list OBJECT instance i refers to
    lists,         \* the heap of list objects: reference -> sequence of labels
    rng,           \* state of the process-wide generator of module random
    pc,            \* pc[i]: position of run i in the replayed command sequence
    outcomes,      \* outcomes[i]: the outcomes measure returned to run i
    draws,         \* draws[i]: the values the measure calls of run i drew
    last           \* the last call: what was called and how it ended

vars == <<made, psi, node_index, lists, rng, pc, outcomes, draws, last>>

-----------------------------------------------------------------------------
(* Bounds *)

MaxQubits == 2      \* live qubits (axes) per instance
MaxLabel == 2       \* labels are 0..MaxLabel
RngStates == 2      \* states of the generator

Inst == {1, 2}
Labels == 0 .. MaxLabel
Kinds == {"X", "Z"}

\* The outcome record belongs to the executor and reaches measure and
\* apply_correction as an argument: <<record, domain>> pairs whose sum does not
\* exist (index out of range), is 0, is 1 and is 2.
Signals == { << <<>>, {0} >>, << <<>>, {} >>, << <<1>>, {0} >>, << <<1, 1>>, {0, 1} >> }

\* Arguments of measure: <<plane, angle, record, s_domain, t_domain>>, angle in units
\* of pi.  Every plane, both angles, every parity of the two signals and a domain
\* index outside the record.
MeasureArgs ==
    { <<"XY", 0, <<>>, {}, {}>>, <<"XY", 1, <<>>, {}, {}>>,
      <<"YZ", 0, <<>>, {}, {}>>, <<"XZ", 1, <<>>, {}, {}>>,
      <<"XY", 1, <<1>>, {0}, {}>>, <<"XY", 0, <<1>>, {}, {0}>>,
      <<"YZ", 0, <<1>>, {0}, {0}>>, <<"XZ", 0, <<1>>, {}, {0}>>,
      <<"XY", 0, <<>>, {0}, {}>> }

DefaultArg == "default"
CallerList(i) == IF i = 1 THEN "caller1" ELSE "caller2"
Refs == {DefaultArg, CallerList(1), CallerList(2)}

-----------------------------------------------------------------------------
(* Arithmetic helpers *)

Abs(x) == IF x < 0 THEN -x ELSE x

RECURSIVE Pow2(_)
Pow2(n) == IF n = 0 THEN 1 ELSE 2 * Pow2(n - 1)

RECURSIVE Log2(_)
Log2(n) == IF n <= 1 THEN 0 ELSE 1 + Log2(n \div 2)

RECURSIVE Gcd(_, _)
Gcd(a, b) == IF b = 0 THEN a ELSE Gcd(b, a % b)

RECURSIVE GcdSeq(_)
GcdSeq(s) == IF s = <<>> THEN 0 ELSE Gcd(Abs(Head(s)), GcdSeq(Tail(s)))

RECURSIVE SumSeq(_)
SumSeq(s) == IF s = <<>> THEN 0 ELSE Head(s) + SumSeq(Tail(s))

RECURSIVE SumSet(_, _)
SumSet(f, S) ==
    IF S = {} THEN 0
    ELSE LET x == CHOOSE y \in S : TRUE IN f[x + 1] + SumSet(f, S \ {x})

-----------------------------------------------------------------------------
(* Tensors *)

Tensor(amp) == [nan |-> FALSE, amp |-> amp]
NaNTensor(n) == [nan |-> TRUE, amp |-> [k \in 1 .. Pow2(n) |-> 0]]
NoTensor == [nan |-> FALSE, amp |-> <<>>]

Rank(t) == Log2(Len(t.amp))
IsZero(t) == ~t.nan /\ \A k \in 1 .. Len(t.amp) : t.amp[k] = 0

\* value (0 or 1) of axis `axis` in the flat position k (1-based) of a rank n tensor
AxisBit(k, axis, n) == ((k - 1) \div Pow2(n - 1 - axis)) % 2
\* the flat position that differs from k by holding b at `axis`
WithBit(k, axis, n, b) == k + (b - AxisBit(k, axis, n)) * Pow2(n - 1 - axis)

CZ_TENSOR ==
    << << << <<1, 0>>, <<0, 0>> >>, << <<0, 1>>, <<0, 0>> >> >>,
       << << <<0, 0>>, <<1, 0>> >>, << <<0, 0>>, <<0, -1>> >> >> >>

SWAP_TENSOR ==
    << << << <<1, 0>>, <<0, 0>> >>, << <<0, 0>>, <<1, 0>> >> >>,
       << << <<0, 1>>, <<0, 0>> >>, << <<0, 0>>, <<0, 1>> >> >> >>

\* |+> up to its norm (state.plus)
plus == <<1, 1>>

\* the Pauli matrices (clifford.X.matrix, clifford.Z.matrix, clifford.CLIFFORD[1], [3])
PauliX == << <<0, 1>>, <<1, 0>> >>
PauliZ == << <<1, 0>>, <<0, -1>> >>

\* _norm(psi) ** 2, as a number of the representative
NormSq(t) == SumSeq([k \in 1 .. Len(t.amp) |-> t.amp[k] * t.amp[k]])

\* StateVec.normalize: psi / norm.  0/0 is NaN in numpy.
normalize(t) ==
    IF t.nan \/ IsZero(t) THEN NaNTensor(Rank(t))
    ELSE LET g == GcdSeq(t.amp)
         IN Tensor([k \in 1 .. Len(t.amp) |-> t.amp[k] \div g])

\* StateVec.tensor: kron(self.psi.flatten(), other.flatten())
tensor(t, other) ==
    LET m == Len(other)
        amp == [k \in 1 .. Len(t.amp) * m |->
                   t.amp[((k - 1) \div m) + 1] * other[((k - 1) % m) + 1]]
    IN IF t.nan THEN NaNTensor(Rank(t) + Log2(m)) ELSE Tensor(amp)

\* single_qubit_evolution: tensordot(op, psi, (1, index)), then moveaxis(0, index)
single_qubit_evolution(t, op, index) ==
    LET n == Rank(t)
        amp == [k \in 1 .. Len(t.amp) |->
                   op[AxisBit(k, index, n) + 1][1] * t.amp[WithBit(k, index, n, 0)]
                 + op[AxisBit(k, index, n) + 1][2] * t.amp[WithBit(k, index, n, 1)]]
    IN IF t.nan THEN t ELSE Tensor(amp)

\* np.asarray of an object that is no array and no sequence: a tensor of rank 0
ObjectArray == Tensor(<<0>>)

\* the method with self.psi handed to the function
SingleQubitEvolutionOfPsi(t, op, index) ==
    IF index >= Rank(t) THEN [err |-> "IndexError", psi |-> t]
    ELSE [err |-> "none", psi |-> single_qubit_evolution(t, op, index)]

\* StateVec.single_qubit_evolution(op, index): hands self, the StateVec object, to
\* the function; tensordot takes np.asarray(self) and finds no axis `index` in it
StateVecSingleQubitEvolution(t, op, index) ==
    IF index >= Rank(ObjectArray) THEN [err |-> "IndexError", psi |-> t]
    ELSE [err |-> "none", psi |-> single_qubit_evolution(ObjectArray, op, index)]

\* tensordot(T, psi, ((2, 3), (q0, q1))), then moveaxis((0, 1), (q0, q1))
two_qubit_evolution(t, T, q0, q1) ==
    LET n == Rank(t)
        at(k, c, d) == t.amp[WithBit(WithBit(k, q0, n, c), q1, n, d)]
        amp == [k \in 1 .. Len(t.amp) |->
                   LET a == AxisBit(k, q0, n) + 1
                       b == AxisBit(k, q1, n) + 1
                   IN T[a][b][1][1] * at(k, 0, 0) + T[a][b][1][2] * at(k, 0, 1)
                    + T[a][b][2][1] * at(k, 1, 0) + T[a][b][2][2] * at(k, 1, 1)]
    IN IF t.nan THEN t ELSE Tensor(amp)

\* psi.take(indices=b, axis=index)
take(t, b, index) ==
    LET n == Rank(t)
        low == Pow2(n - 1 - index)
        amp == [k \in 1 .. Pow2(n - 1) |->
                   t.amp[((k - 1) \div low) * 2 * low + b * low + ((k - 1) % low) + 1]]
    IN IF t.nan THEN NaNTensor(n - 1) ELSE Tensor(amp)

-----------------------------------------------------------------------------
(* Lists (node_index is a Python list) *)

Contains(nodes, x) == \E k \in 1 .. Len(nodes) : nodes[k] = x

\* list.index(x), 0-based; -1 stands for the ValueError of a missing element
IndexOf(nodes, x) ==
    IF Contains(nodes, x)
    THEN (CHOOSE k \in 1 .. Len(nodes) :
             nodes[k] = x /\ \A j \in 1 .. k - 1 : nodes[j] # x) - 1
    ELSE -1

\* list.remove(x): the first occurrence goes
Remove(nodes, x) ==
    LET at == IndexOf(nodes, x) + 1
    IN [k \in 1 .. Len(nodes) - 1 |-> IF k < at THEN nodes[k] ELSE nodes[k + 1]]

-----------------------------------------------------------------------------
(* The generator of module random: one process-wide state *)

\* the value random.random() returns in state g, in quarters: 0, 3/4, 1/2, 1/4, ...
RandomValue(g) == (3 * g) % 4
RngNext(g) == (g + 1) % RngStates
\* random.seed(s)
RngSeeded(s) == s % RngStates

-----------------------------------------------------------------------------
(* Measurement basis *)

\* pauli.MeasureUpdate.compute(plane, s, t, TABLE[0]): the sign of the angle, the
\* term added to it (in units of pi) and the plane, for the identity frame
MeasureUpdate(plane, s, t) ==
    [new_plane |-> plane,
     coeff |-> CASE plane = "XY" -> IF s THEN -1 ELSE 1
                 [] plane = "YZ" -> IF t THEN -1 ELSE 1
                 [] plane = "XZ" -> IF s # t THEN -1 ELSE 1,
     add_term |-> CASE plane = "XY" -> IF t THEN 1 ELSE 0
                    [] plane = "YZ" -> IF s THEN 1 ELSE 0
                    [] plane = "XZ" -> IF s THEN 1 ELSE 0]

\* cos and sin of an integer multiple of pi
CosPi(k) == IF k % 2 = 0 THEN 1 ELSE -1
SinPi(k) == 0

\* Plane.polar(angle): the Bloch vector <<x, y, z>>
polar(plane, k) ==
    CASE plane = "XY" -> <<CosPi(k), SinPi(k), 0>>
      [] plane = "YZ" -> <<0, SinPi(k), CosPi(k)>>
      [] plane = "XZ" -> <<SinPi(k), 0, CosPi(k)>>

\* meas_op(vec, measurement), doubled: I + sign * (x X + z Z).  The y component
\* is 0 for every angle of Angles.
meas_op(vec, measurement) ==
    LET sign == IF measurement = 0 THEN 1 ELSE -1
    IN << <<1 + sign * vec[3], sign * vec[1]>>,
          <<sign * vec[1], 1 - sign * vec[3]>> >>

\* expectation_single(op, index) for the doubled op, as <<numerator, denominator>>
\* of its absolute value; <<0, 0>> is NaN (the normalised copy of a zero tensor)
expectation_single(t, op2, index) ==
    IF t.nan \/ IsZero(t) THEN <<0, 0>>
    ELSE LET e == single_qubit_evolution(t, op2, index)
             dot == SumSeq([k \in 1 .. Len(t.amp) |-> t.amp[k] * e.amp[k]])
         IN <<Abs(dot), 2 * NormSq(t)>>

\* random.random() > proba_Plus, for the value u quarters; False against NaN
Exceeds(u, p) == p[2] # 0 /\ u * p[2] > 4 * p[1]

\* StateVec.remove_qubit(index)
remove_qubit(t, index) ==
    IF IsZero(t) THEN [err |-> "AssertionError", psi |-> t]
    ELSE LET p0 == take(t, 0, index)
         IN [err |-> "none",
             psi |-> normalize(IF IsZero(p0) THEN take(t, 1, index) ELSE p0)]

-----------------------------------------------------------------------------
(* The handlers, as functions of what they read *)

\* StateVec.__init__(input_nodes): |+> on every input node
InitialPsi(nodes) == Tensor([k \in 1 .. Pow2(Len(nodes)) |-> 1])

\* sum(measurements[i] for i in domain) % 2 == 1
ParityOdd(rec, domain) == SumSet(rec, domain) % 2 = 1

InRange(rec, domain) == \A k \in domain : k < Len(rec)

\* cliff_gate = X if type == "X" else Z
cliff_gate(type) == IF type = "X" THEN PauliX ELSE PauliZ

\* StateVec.entangle and StateVec.swap share this shape once the two axes are known:
\* the error numpy raises for them, or "none"
AxesError(t, q0, q1) ==
    IF q0 >= Rank(t) \/ q1 >= Rank(t) THEN "IndexError"
    ELSE IF q0 = q1 THEN "ValueError"
    ELSE "none"

\* StateVec.entangle(control, target)
entangle(t, nodes, control, target) ==
    LET c == IndexOf(nodes, control)
        g == IndexOf(nodes, target)
    IN IF c = -1 \/ g = -1 THEN [err |-> "ValueError", psi |-> t]
       ELSE IF AxesError(t, c, g) # "none" THEN [err |-> AxesError(t, c, g), psi |-> t]
       ELSE [err |-> "none", psi |-> two_qubit_evolution(t, CZ_TENSOR, c, g)]

\* StateVec.swap(qubits): the two arguments are used as axes
swap(t, nodes, q0, q1) ==
    IF AxesError(t, q0, q1) # "none" THEN [err |-> AxesError(t, q0, q1), psi |-> t]
    ELSE [err |-> "none", psi |-> two_qubit_evolution(t, SWAP_TENSOR, q0, q1)]

\* StateVec.apply_correction(type, index, domain, measurement_results)
apply_correction(t, nodes, rec, type, index, domain) ==
    IF ~InRange(rec, domain) THEN [err |-> "IndexError", psi |-> t]
    ELSE IF ~ParityOdd(rec, domain) THEN [err |-> "none", psi |-> t]
    ELSE LET sv_index == IndexOf(nodes, index)
         IN IF sv_index = -1 THEN [err |-> "ValueError", psi |-> t]
            ELSE StateVecSingleQubitEvolution(t, cliff_gate(type), sv_index)

\* StateVec.measure(index, plane, angle, s_domain, t_domain, measurements), vop = 0,
\* in generator state g
measure(t, nodes, rec, g, index, plane, angle, s_domain, t_domain) ==
    LET loc == IndexOf(nodes, index)
        stop(e) == [err |-> e, psi |-> t, nodes |-> nodes, rng |-> g, ret |-> -1,
                    drew |-> -1]
    IN IF ~InRange(rec, s_domain) \/ ~InRange(rec, t_domain) THEN stop("IndexError")
       ELSE IF loc = -1 THEN stop("ValueError")
       ELSE IF loc >= Rank(t) THEN stop("IndexError")
       ELSE
         LET measure_update == MeasureUpdate(plane, ParityOdd(rec, s_domain),
                                             ParityOdd(rec, t_domain))
             updated == angle * measure_update.coeff + measure_update.add_term
             vec == polar(measure_update.new_plane, updated)
             proba_Plus == expectation_single(t, meas_op(vec, 0), loc)
             measurement == IF Exceeds(RandomValue(g), proba_Plus) THEN 1 ELSE 0
             projected == StateVecSingleQubitEvolution(t, meas_op(vec, measurement), loc)
             removed == remove_qubit(projected.psi, loc)
             after(e, p, n, r) == [err |-> e, psi |-> p, nodes |-> n, rng |-> RngNext(g),
                                   ret |-> r, drew |-> RandomValue(g)]
         IN IF projected.err # "none" THEN after(projected.err, t, nodes, -1)
            ELSE IF removed.err # "none" THEN after(removed.err, projected.psi, nodes, -1)
            ELSE after("none", removed.psi, Remove(nodes, index), measurement)

-----------------------------------------------------------------------------
(* State *)

NodeIndex(i) == lists[node_index[i]]

\* what the last call was and how it ended: the operation, whether every label it
\* named was live, the parity of its domain(s) (-1: an index outside the record),
\* the exception it raised, the value it returned and the value it drew
NoCall ==
    [inst |-> 0, op |-> "none", live |-> FALSE, parity |-> -1, err |-> "none",
     ret |-> -1, drew |-> -1]

Parity(rec, domain) ==
    IF ~InRange(rec, domain) THEN -1 ELSE IF ParityOdd(rec, domain) THEN 1 ELSE 0

\* the state after session 1 was constructed by StateVec()
Init ==
    /\ made = {1}
    /\ psi = [i \in Inst |-> IF i = 1 THEN InitialPsi(<<>>) ELSE NoTensor]
    /\ node_index = [i \in Inst |-> DefaultArg]
    /\ lists = [r \in Refs |-> <<>>]
    /\ rng \in 0 .. RngStates - 1
    /\ pc = [i \in Inst |-> 0]
    /\ outcomes = [i \in Inst |-> <<>>]
    /\ draws = [i \in Inst |-> <<>>]
    /\ last = NoCall

-----------------------------------------------------------------------------
(* Operations.  Each leaves pc and outcomes to the specification that uses it. *)

\* StateVec.prepare_state(target)
prepare_state(t, nodes, target) ==
    [err |-> "none", psi |-> tensor(t, plus), nodes |-> Append(nodes, target)]

DoConstruct(i, ref) ==
    /\ i \notin made
    /\ Len(lists[ref]) <= MaxQubits
    /\ made' = made \cup {i}
    /\ psi' = [psi EXCEPT ![i] = InitialPsi(lists[ref])]
    /\ node_index' = [node_index EXCEPT ![i] = ref]
    /\ last' = [NoCall EXCEPT !.inst = i, !.op = "init"]
    /\ UNCHANGED <<lists, rng>>

DoPrepare(i, target) ==
    /\ i \in made
    /\ Rank(psi[i]) < MaxQubits
    /\ Len(NodeIndex(i)) < MaxQubits
    /\ LET r == prepare_state(psi[i], NodeIndex(i), target)
       IN /\ psi' = [psi EXCEPT ![i] = r.psi]
          /\ lists' = [lists EXCEPT ![node_index[i]] = r.nodes]
          /\ last' = [NoCall EXCEPT !.inst = i, !.op = "prepare",
                                    !.live = Contains(NodeIndex(i), target),
                                    !.err = r.err]
    /\ UNCHANGED <<made, node_index, rng>>

DoEntangle(i, control, target) ==
    /\ i \in made
    /\ LET r == entangle(psi[i], NodeIndex(i), control, target)
       IN /\ psi' = [psi EXCEPT ![i] = r.psi]
          /\ last' = [NoCall EXCEPT !.inst = i, !.op = "entangle",
                                    !.live = Contains(NodeIndex(i), control)
                                             /\ Contains(NodeIndex(i), target),
                                    !.err = r.err]
    /\ UNCHANGED <<made, node_index, lists, rng>>

DoSwap(i, q0, q1) ==
    /\ i \in made
    /\ LET r == swap(psi[i], NodeIndex(i), q0, q1)
       IN /\ psi' = [psi EXCEPT ![i] = r.psi]
          /\ last' = [NoCall EXCEPT !.inst = i, !.op = "swap",
                                    !.live = Contains(NodeIndex(i), q0)
                                             /\ Contains(NodeIndex(i), q1),
                                    !.err = r.err]
    /\ UNCHANGED <<made, node_index, lists, rng>>

DoMeasure(i, index, plane, angle, rec, s_domain, t_domain) ==
    /\ i \in made
    /\ LET r == measure(psi[i], NodeIndex(i), rec, rng, index, plane, angle,
                        s_domain, t_domain)
       IN /\ psi' = [psi EXCEPT ![i] = r.psi]
          /\ lists' = [lists EXCEPT ![node_index[i]] = r.nodes]
          /\ rng' = r.rng
          /\ last' = [NoCall EXCEPT !.inst = i, !.op = "measure",
                                    !.live = Contains(NodeIndex(i), index),
                                    !.parity = IF InRange(rec, s_domain)
                                                  /\ InRange(rec, t_domain)
                                               THEN 0 ELSE -1,
                                    !.err = r.err, !.ret = r.ret, !.drew = r.drew]
    /\ UNCHANGED <<made, node_index>>

DoCorrection(i, type, index, rec, domain) ==
    /\ i \in made
    /\ LET r == apply_correction(psi[i], NodeIndex(i), rec, type, index, domain)
       IN /\ psi' = [psi EXCEPT ![i] = r.psi]
          /\ last' = [NoCall EXCEPT !.inst = i, !.op = "apply_correction",
                                    !.live = Contains(NodeIndex(i), index),
                                    !.parity = Parity(rec, domain),
                                    !.err = r.err]
    /\ UNCHANGED <<made, node_index, lists, rng>>

\* any other code of the process calls random.random()
DoDraw ==
    /\ rng' = RngNext(rng)
    /\ last' = [NoCall EXCEPT !.op = "draw"]
    /\ UNCHANGED <<made, psi, node_index, lists>>

-----------------------------------------------------------------------------
(* One session driven by an arbitrary executor *)

Prepare == \E l \in Labels : DoPrepare(1, l) /\ UNCHANGED <<pc, outcomes, draws>>
Entangle == \E c, g \in Labels : DoEntangle(1, c, g) /\ UNCHANGED <<pc, outcomes, draws>>
Swap == \E c, g \in Labels : DoSwap(1, c, g) /\ UNCHANGED <<pc, outcomes, draws>>
Measure ==
    \E l \in Labels, m \in MeasureArgs :
        DoMeasure(1, l, m[1], m[2], m[3], m[4], m[5]) /\ UNCHANGED <<pc, outcomes, draws>>
Correction ==
    \E k \in Kinds, l \in Labels, g \in Signals :
        DoCorrection(1, k, l, g[1], g[2]) /\ UNCHANGED <<pc, outcomes, draws>>
OtherDraw == DoDraw /\ UNCHANGED <<pc, outcomes, draws>>

Next == Prepare \/ Entangle \/ Swap \/ Measure \/ Correction \/ OtherDraw

Spec == Init /\ [][Next]_vars

-----------------------------------------------------------------------------
(* Properties of one session *)

NoDuplicate(nodes) ==
    \A j, k \in 1 .. Len(nodes) : nodes[j] = nodes[k] => j = k

\* the named Pauli operator on one axis, amplitude by amplitude: X exchanges the two
\* values of the axis, Z negates the amplitudes where the axis holds 1
PauliOnAxis(t, type, axis) ==
    LET n == Rank(t)
    IN IF t.nan THEN t
       ELSE Tensor([k \in 1 .. Len(t.amp) |->
               IF type = "X" THEN t.amp[WithBit(k, axis, n, 1 - AxisBit(k, axis, n))]
               ELSE IF AxisBit(k, axis, n) = 1 THEN -t.amp[k] ELSE t.amp[k]])

\* the amplitudes with the values of two axes exchanged
ExchangeAxes(t, c, g) ==
    LET n == Rank(t)
    IN IF t.nan THEN t
       ELSE Tensor([k \in 1 .. Len(t.amp) |->
               t.amp[WithBit(WithBit(k, c, n, AxisBit(k, g, n)), g, n, AxisBit(k, c, n))]])

\* every call that names label l fails on tensor t with label map nodes
EveryCallNamingFails(t, nodes, g, l) ==
    /\ \A o \in Labels :
          /\ entangle(t, nodes, l, o).err # "none"
          /\ entangle(t, nodes, o, l).err # "none"
          /\ swap(t, nodes, l, o).err # "none"
          /\ swap(t, nodes, o, l).err # "none"
    /\ \A m \in MeasureArgs : measure(t, nodes, m[3], g, l, m[1], m[2], m[4], m[5]).err # "none"
    /\ \A k \in Kinds, d \in Signals : apply_correction(t, nodes, d[1], k, l, d[2]).err # "none"

\* C1: in every reachable state the label map is a bijection between live labels and
\* tensor axes: no label twice, as many labels as psi has axes; prepare appends the
\* new label at the last axis; measuring a label deletes its axis, the labels at
\* higher axes move down by one and those at lower axes stay.
C1_LabelMapBijection ==
    /\ [](NoDuplicate(NodeIndex(1)) /\ Len(NodeIndex(1)) = Rank(psi[1]))
    /\ [][\A l \in Labels :
            DoPrepare(1, l) =>
                /\ NodeIndex(1)' = Append(NodeIndex(1), l)
                /\ Rank(psi'[1]) = Rank(psi[1]) + 1]_vars
    /\ [][\A l \in Labels, m \in MeasureArgs :
            (DoMeasure(1, l, m[1], m[2], m[3], m[4], m[5]) /\ last'.err = "none") =>
                /\ Rank(psi'[1]) = Rank(psi[1]) - 1
                /\ \A x \in Labels \ {l} :
                      Contains(NodeIndex(1), x) =>
                          IndexOf(NodeIndex(1)', x) =
                              IF IndexOf(NodeIndex(1), x) > IndexOf(NodeIndex(1), l)
                              THEN IndexOf(NodeIndex(1), x) - 1
                              ELSE IndexOf(NodeIndex(1), x)]_vars

\* C2: prepare of a label that is already live fails, and leaves the tensor and the
\* label map as they were.
C2_PrepareLiveLabelFails ==
    [][\A l \in Labels :
          (Contains(NodeIndex(1), l) /\ DoPrepare(1, l)) =>
              /\ last'.err # "none"
              /\ psi' = psi
              /\ lists' = lists]_vars

\* C3: entangle, swap, measure and apply_correction fail when a label they name is
\* not live, whatever their other arguments are.
C3_DeadLabelFails ==
    (/\ last.op \in {"entangle", "swap", "measure", "apply_correction"}
     /\ ~last.live)
        => last.err # "none"

\* C4: swap of two live labels exchanges the amplitudes of the axes the label map
\* gives for them.
C4_SwapResolvesLabels ==
    [][\A a, b \in Labels :
          (/\ a # b
           /\ Contains(NodeIndex(1), a)
           /\ Contains(NodeIndex(1), b)
           /\ DoSwap(1, a, b)) =>
              /\ last'.err = "none"
              /\ psi'[1] = ExchangeAxes(psi[1], IndexOf(NodeIndex(1), a),
                                        IndexOf(NodeIndex(1), b))]_vars

\* C5: a call that fails leaves the tensor and the label map as they were before it.
C5_FailureIsAtomic ==
    [][last'.err # "none" => (psi' = psi /\ lists' = lists /\ node_index' = node_index)]_vars

\* a measure of a live label of an entangled two-qubit register has just failed
C5_Witness ==
    /\ last.op = "measure"
    /\ last.live
    /\ last.parity = 0
    /\ last.err # "none"
    /\ Len(NodeIndex(1)) = 2
    /\ \E k \in 1 .. Len(psi[1].amp) : psi[1].amp[k] < 0

\* C7: measure of a live label with every domain index inside the record completes
\* and returns 0 or 1; afterwards the label is not in the label map, the label map
\* and the tensor each lost exactly one entry/axis, and every call naming the label
\* fails.  (The record is an argument the handler only reads.)
C7_MeasureRemovesLabel ==
    [][\A l \in Labels, m \in MeasureArgs :
          (/\ Contains(NodeIndex(1), l)
           /\ InRange(m[3], m[4])
           /\ InRange(m[3], m[5])
           /\ DoMeasure(1, l, m[1], m[2], m[3], m[4], m[5])) =>
              /\ last'.err = "none"
              /\ last'.ret \in {0, 1}
              /\ ~Contains(NodeIndex(1)', l)
              /\ Len(NodeIndex(1)') = Len(NodeIndex(1)) - 1
              /\ Rank(psi'[1]) = Rank(psi[1]) - 1
              /\ EveryCallNamingFails(psi'[1], NodeIndex(1)', rng', l)]_vars

\* C8: apply_correction on a live label leaves the tensor and the label map alone
\* when the sum over the domain is even; when it is odd it completes, the tensor
\* becomes the named Pauli operator applied to the label's axis, the label map is
\* unchanged, and the same call once more gives back the original tensor.
C8_CorrectionDeterminism ==
    [][\A k \in Kinds, l \in Labels, g \in Signals :
          (/\ Contains(NodeIndex(1), l)
           /\ InRange(g[1], g[2])
           /\ DoCorrection(1, k, l, g[1], g[2])) =>
              /\ last'.err = "none"
              /\ lists' = lists
              /\ node_index' = node_index
              /\ SumSet(g[1], g[2]) % 2 = 0 => psi' = psi
              /\ SumSet(g[1], g[2]) % 2 = 1 =>
                    /\ psi'[1] = PauliOnAxis(psi[1], k, IndexOf(NodeIndex(1), l))
                    /\ apply_correction(psi'[1], NodeIndex(1)', g[1], k, l, g[2]).psi
                           = psi[1]]_vars

-----------------------------------------------------------------------------
(* Two sessions of one process: StateVec() or StateVec(input_nodes) each, then
   prepare and measure calls in any interleaving *)

InitSessions ==
    /\ made = {}
    /\ psi = [i \in Inst |-> NoTensor]
    /\ node_index = [i \in Inst |-> DefaultArg]
    /\ lists \in {f \in [Refs -> {<<>>, <<0>>}] : f[DefaultArg] = <<>>}
    /\ rng \in 0 .. RngStates - 1
    /\ pc = [i \in Inst |-> 0]
    /\ outcomes = [i \in Inst |-> <<>>]
    /\ draws = [i \in Inst |-> <<>>]
    /\ last = NoCall

Construct ==
    \E i \in Inst :
        \E r \in {DefaultArg, CallerList(i)} :
            DoConstruct(i, r) /\ UNCHANGED <<pc, outcomes, draws>>
SessionPrepare == \E i \in Inst, l \in Labels : DoPrepare(i, l) /\ UNCHANGED <<pc, outcomes, draws>>
SessionMeasure ==
    \E i \in Inst, l \in Labels :
        DoMeasure(i, l, "XY", 0, <<>>, {}, {}) /\ UNCHANGED <<pc, outcomes, draws>>

NextSessions == Construct \/ SessionPrepare \/ SessionMeasure

SpecSessions == InitSessions /\ [][NextSessions]_vars

\* C6: a prepare or measure call on one instance leaves the label map and the tensor
\* of every other instance unchanged, also when both were constructed with the
\* default input_nodes; and it leaves a list the caller passed as input_nodes
\* unchanged.
C6_SessionsShareNothing ==
    [][last'.op \in {"prepare", "measure"} =>
          /\ \A j \in made \ {last'.inst} :
                NodeIndex(j)' = NodeIndex(j) /\ psi'[j] = psi[j]
          /\ \A j \in Inst : lists'[CallerList(j)] = lists[CallerList(j)]]_vars

-----------------------------------------------------------------------------
(* Two runs of the end-to-end scenario from the same seed, each on a register of
   its own (StateVec([])), interleaved with each other and with draws of other
   code *)

Script ==
    << [op |-> "seed", a |-> 0, b |-> 0],
       [op |-> "prepare", a |-> 0, b |-> 0],
       [op |-> "prepare", a |-> 1, b |-> 0],
       [op |-> "entangle", a |-> 0, b |-> 1],
       [op |-> "measure", a |-> 0, b |-> 0] >>

Finished(i) == pc[i] = Len(Script)
Command(i) == Script[pc[i] + 1]
Advance(i) == pc' = [pc EXCEPT ![i] = IF last'.err = "none" THEN @ + 1 ELSE Len(Script)]

InitReplay ==
    /\ made = Inst
    /\ psi = [i \in Inst |-> InitialPsi(<<>>)]
    /\ node_index = [i \in Inst |-> CallerList(i)]
    /\ lists = [r \in Refs |-> <<>>]
    /\ rng \in 0 .. RngStates - 1
    /\ pc = [i \in Inst |-> 0]
    /\ outcomes = [i \in Inst |-> <<>>]
    /\ draws = [i \in Inst |-> <<>>]
    /\ last = NoCall

\* random.seed(a)
RunSeed(i) ==
    /\ ~Finished(i)
    /\ Command(i).op = "seed"
    /\ rng' = RngSeeded(Command(i).a)
    /\ last' = [NoCall EXCEPT !.inst = i, !.op = "seed"]
    /\ Advance(i)
    /\ UNCHANGED <<made, psi, node_index, lists, outcomes, draws>>

RunPrepare(i) ==
    /\ ~Finished(i)
    /\ Command(i).op = "prepare"
    /\ DoPrepare(i, Command(i).a)
    /\ Advance(i)
    /\ UNCHANGED <<outcomes, draws>>

RunEntangle(i) ==
    /\ ~Finished(i)
    /\ Command(i).op = "entangle"
    /\ DoEntangle(i, Command(i).a, Command(i).b)
    /\ Advance(i)
    /\ UNCHANGED <<outcomes, draws>>

\* measure(a, plane=XY, angle=0, s_domain=[], t_domain=[], measurements=[])
RunMeasure(i) ==
    /\ ~Finished(i)
    /\ Command(i).op = "measure"
    /\ DoMeasure(i, Command(i).a, "XY", 0, <<>>, {}, {})
    /\ Advance(i)
    /\ outcomes' = [outcomes EXCEPT ![i] = IF last'.err = "none"
                                            THEN Append(@, last'.ret) ELSE @]
    /\ draws' = [draws EXCEPT ![i] = IF last'.drew # -1
                                      THEN Append(@, last'.drew) ELSE @]

NextReplay ==
    \/ \E i \in Inst : RunSeed(i)
    \/ \E i \in Inst : RunPrepare(i)
    \/ \E i \in Inst : RunEntangle(i)
    \/ \E i \in Inst : RunMeasure(i)
    \/ OtherDraw

SpecReplay == InitReplay /\ [][NextReplay]_vars

\* C9: two runs of the same command sequence from the same seed draw the same
\* values in their measure calls and return the same outcomes, whatever is drawn
\* between their calls by the other run or by other code; only measure draws.
C9_SeededReplay ==
    /\ []((Finished(1) /\ Finished(2)) =>
             (outcomes[1] = outcomes[2] /\ draws[1] = draws[2]))
    /\ [][last'.op \in {"prepare", "entangle", "swap", "apply_correction"}
             => rng' = rng]_vars

\* the probability of outcome 0 for the measurement the scenario makes on run i
ScenarioP0(i) ==
    expectation_single(psi[i], meas_op(polar("XY", 0), 0), IndexOf(NodeIndex(i), 0))

\* C10: in the end-to-end scenario p0 is 1/2, the measurement returns 0 or 1, and
\* label 1 is left alone in |+> on outcome 0 and in |-> on outcome 1.
C10_ScenarioPlusMinus ==
    \A i \in Inst :
        /\ (pc[i] = Len(Script) - 1) => 2 * ScenarioP0(i)[1] = ScenarioP0(i)[2]
        /\ Finished(i) =>
              /\ NodeIndex(i) = <<1>>
              /\ outcomes[i] \in {<<0>>, <<1>>}
              /\ outcomes[i] = <<0>> =>
                    (psi[i].amp[1] = psi[i].amp[2] /\ psi[i].amp[1] # 0)
              /\ outcomes[i] = <<1>> =>
                    (psi[i].amp[1] = -psi[i].amp[2] /\ psi[i].amp[1] # 0)

====
